---- MODULE Spec2Model ----
(***************************************************************************)
(* Model of the two reward handlers of beacon_node/http_api:               *)
(*   compute_attestation_rewards      (attestation_rewards.rs)             *)
(*   compute_sync_committee_rewards   (sync_committee_rewards.rs)          *)
(* Each handler is one action: it reads an immutable snapshot of the chain *)
(* (the inputs, chosen in Init) and produces either a response or a        *)
(* rejection.  AttSpec and AttValidatorSpec run the attestation handler    *)
(* (the first varies the balances, the second the validators), SyncSpec    *)
(* the sync committee handler.                                             *)
(*                                                                         *)
(* Scale.  TLC's integers are 32 bits wide, so the u64 of the program is   *)
(* modelled by a word whose largest value is MaxWord; balances are counted *)
(* in units of which EFFECTIVE_BALANCE_INCREMENT make one whole "ETH".     *)
(***************************************************************************)
EXTENDS Integers, Sequences, FiniteSets, TLC

\* ------------------------------------------------------------------ bounds
\* largest value of the model's unsigned word (stands for u64::MAX)
MaxWord == 4095
\* balances of the snapshot range over 0..MaxBalance
MaxBalance == 6
\* BaseRewardPerIncrement values range over 1..MaxBaseRewardPerIncrement
MaxBaseRewardPerIncrement == 2

\* ------------------------------------------------------- program constants
WEIGHT_DENOMINATOR == 64
TIMELY_SOURCE_FLAG_INDEX == 0
TIMELY_TARGET_FLAG_INDEX == 1
TIMELY_HEAD_FLAG_INDEX == 2
\* spec.effective_balance_increment, in model units
EFFECTIVE_BALANCE_INCREMENT == 2
\* for effective_balance_eth in 0..=32
MaxEffectiveBalanceEth == 32

\* the array the flag loop iterates over
FlagIndices == <<TIMELY_SOURCE_FLAG_INDEX, TIMELY_TARGET_FLAG_INDEX, TIMELY_HEAD_FLAG_INDEX>>
Flags == {FlagIndices[i] : i \in 1..Len(FlagIndices)}
Buckets == 0..MaxEffectiveBalanceEth

\* the validator registry of the snapshot
ValidatorIndices == {0, 1}
\* effective balances (whole ETH) a validator of the snapshot may have
ValidatorBuckets == {1, MaxEffectiveBalanceEth}

\* -------------------------------------------------------- word arithmetic
\* the Err of a checked operation
ArithError == -1

\* u64::safe_mul, with the Err of an and_then / ? chain passed through
safe_mul(a, b) ==
    IF a = ArithError \/ b = ArithError THEN ArithError
    ELSE IF a * b > MaxWord THEN ArithError
    ELSE a * b

\* u64::safe_div, with the Err of an and_then / ? chain passed through
safe_div(a, b) ==
    IF a = ArithError \/ b = ArithError THEN ArithError
    ELSE IF b = 0 THEN ArithError
    ELSE a \div b

MaxSigned == MaxWord \div 2

\* `x as i64` of an unsigned word: two's complement reinterpretation
as_i64(x) == IF x > MaxSigned THEN x - (MaxWord + 1) ELSE x

\* `x as u64` of a signed value
as_u64(x) == x % (MaxWord + 1)

\* signed `/` of Rust: truncation toward zero
trunc_div(a, b) == IF a >= 0 THEN a \div b ELSE -((-a) \div b)

\* least element of a non-empty set of integers
MinOf(S) == CHOOSE x \in S : \A y \in S : x <= y

VARIABLES
    \* --- snapshot read by compute_attestation_rewards
    fault,                  \* the external call of the request that fails, or "none"
    fault_flag,             \* the flag whose participation lookup fails (fault = "indices")
    in_inactivity_leak,     \* state.is_in_inactivity_leak(previous_epoch, spec)
    total_active_balance,   \* participation_cache.current_epoch_total_active_balance()
    unslashed_balance,      \* flag -> total_balance() of its unslashed participating set
    per_increment,          \* BaseRewardPerIncrement::new(total_active_balance, spec)
    is_eligible,            \* validator -> state.is_eligible_validator(previous_epoch, v)
    participated,           \* validator -> flags whose unslashed participating set holds it
    effective_balance,      \* validator -> its effective balance in whole ETH
    \* --- compute_attestation_rewards: locals and result
    att_pc,                 \* "start" | "done"
    att_outcome,            \* "none" | "ok" | the rejection
    ideal_rewards_hashmap,  \* <<flag, bucket>> -> reward
    ideal_rewards,          \* response: <<flag, bucket>> -> IdealAttestationRewards
    total_rewards           \* response: sequence of TotalAttestationRewards

att_vars == <<fault, fault_flag, in_inactivity_leak, total_active_balance,
              unslashed_balance, per_increment, is_eligible, participated,
              effective_balance, att_pc, att_outcome, ideal_rewards_hashmap,
              ideal_rewards, total_rewards>>

\* --- snapshot and request read by compute_sync_committee_rewards
VARIABLES
    sync_fault,               \* the external call of the request that fails, or "none"
    current_sync_committee,   \* state.current_sync_committee().pubkeys
    sync_committee_bits,      \* sync_aggregate.sync_committee_bits
    validator_lookup,         \* pubkey -> outcome of state.get_validator_index(pubkey)
    participant_reward_value, \* first component of compute_sync_aggregate_rewards
    validators,               \* the request's validator filter
    \* --- compute_sync_committee_rewards: result
    sync_pc,                  \* "start" | "done"
    sync_outcome,             \* "none" | "ok" | "panic" | the rejection
    data_is_some,             \* response: data is Some(..)
    data                      \* response: the rewards of Some(..), else <<>>

sync_vars == <<sync_fault, current_sync_committee, sync_committee_bits, validator_lookup,
               participant_reward_value, validators, sync_pc, sync_outcome,
               data_is_some, data>>

vars == <<att_vars, sync_vars>>

EmptyMap == [k \in {} |-> 0]

\* ------------------------------------------- collaborators of the handler
\* get_flag_weight: PARTICIPATION_FLAG_WEIGHTS of the protocol
get_flag_weight(f) ==
    CASE f = TIMELY_SOURCE_FLAG_INDEX -> 14
      [] f = TIMELY_TARGET_FLAG_INDEX -> 26
      [] f = TIMELY_HEAD_FLAG_INDEX -> 14

\* get_base_reward for an effective balance of b whole ETH
get_base_reward(b, brpi) == safe_mul(b, brpi)

\* participation_cache.get_unslashed_participating_indices(f, previous_epoch).is_ok()
unslashed_participating_indices_is_ok(f) == ~(fault = "indices" /\ fault_flag = f)

\* BaseRewardPerIncrement::new(total_active_balance, spec)
base_reward_per_increment == IF fault = "brpi" THEN ArithError ELSE per_increment

\* ------------------------------------------------ ideal reward table (36-94)
unslashed_participating_increments(f) ==
    safe_div(unslashed_balance[f], EFFECTIVE_BALANCE_INCREMENT)

active_increments == safe_div(total_active_balance, EFFECTIVE_BALANCE_INCREMENT)

\* the loop-scoped base_reward of bucket b
loop_base_reward(b) == get_base_reward(b, base_reward_per_increment)

\* reward_numerator with wrapping_mul in place of safe_mul
reward_numerator_wrapping(f, b) ==
    IF loop_base_reward(b) = ArithError \/ unslashed_participating_increments(f) = ArithError
    THEN ArithError
    ELSE (((loop_base_reward(b) * get_flag_weight(f)) % (MaxWord + 1))
             * unslashed_participating_increments(f)) % (MaxWord + 1)

reward_numerator(f, b) ==
    safe_mul(safe_mul(loop_base_reward(b), get_flag_weight(f)),
             unslashed_participating_increments(f))

\* reward with a zero active_increments defaulted to a reward of 0
reward_zero_default(f, b) ==
    IF active_increments = 0 THEN 0
    ELSE safe_div(safe_div(reward_numerator(f, b), active_increments), WEIGHT_DENOMINATOR)

reward(f, b) ==
    safe_div(safe_div(reward_numerator(f, b), active_increments), WEIGHT_DENOMINATOR)

\* ideal_entry with the leak test inverted
ideal_entry_inverted(f, b) == IF in_inactivity_leak THEN reward(f, b) ELSE 0

\* the value inserted at (f, b)
ideal_entry(f, b) == IF ~in_inactivity_leak THEN reward(f, b) ELSE 0

\* the rejection raised by the body of the bucket loop at (f, b), or "none"
bucket_rejection(f, b) ==
    IF loop_base_reward(b) = ArithError THEN "not_found"
    ELSE IF reward_numerator(f, b) = ArithError THEN "server_error"
    ELSE IF reward(f, b) = ArithError THEN "server_error"
    ELSE "none"

\* the rejection raised by the iteration of the flag loop for f, or "none"
flag_rejection(f) ==
    IF ~unslashed_participating_indices_is_ok(f) THEN "not_found"
    ELSE IF unslashed_participating_increments(f) = ArithError THEN "not_found"
    ELSE IF active_increments = ArithError THEN "not_found"
    ELSE IF base_reward_per_increment = ArithError THEN "not_found"
    ELSE LET bad == {b \in Buckets : bucket_rejection(f, b) # "none"}
         IN  IF bad = {} THEN "none" ELSE bucket_rejection(f, MinOf(bad))

\* the rejection that ends the flag loop: that of the first failing flag
table_rejection ==
    LET bad == {i \in 1..Len(FlagIndices) : flag_rejection(FlagIndices[i]) # "none"}
    IN  IF bad = {} THEN "none" ELSE flag_rejection(FlagIndices[MinOf(bad)])

\* ---------------------------------------------- actual rewards (44-47, 96-117)
\* the function-scoped bindings the validator loop reads; the bindings of the
\* same names inside the two loops shadow them and end with their loops
flag_index == 0
weight == 0
base_reward == 0
effective_balance_eth == 0

\* the list the validator loop walks
eligible_validator_indices == <<0, 1>>

voted_correctly == unslashed_participating_indices_is_ok(flag_index)

\* *ideal_rewards_hashmap.get(&key).unwrap_or(&0)
hashmap_get_or_zero(map, key) == IF key \in DOMAIN map THEN map[key] ELSE 0

\* total_reward without the eligibility test, looked up at the validator's bucket
total_reward_unconditional(map, v) ==
    hashmap_get_or_zero(map, <<flag_index, effective_balance[v]>>)

total_reward(map, v) ==
    IF ~is_eligible[v] THEN 0
    ELSE IF voted_correctly
         THEN hashmap_get_or_zero(map, <<flag_index, effective_balance_eth>>)
         ELSE as_u64(trunc_div((-as_i64(base_reward)) * weight, WEIGHT_DENOMINATOR))

\* ------------------------------------------------------ response (119-145)
IdealAttestationRewards(map, key) ==
    [effective_balance |-> key[2], head |-> map[key], target |-> 0, source |-> 0]

TotalAttestationRewards(map, v) ==
    [validator_index |-> v, head |-> as_i64(total_reward(map, v)),
     target |-> 0, source |-> 0, inclusion_delay |-> 0]

\* the rejection of the whole request, or "none"
att_rejection ==
    IF fault = "state_root" THEN "not_found"
    ELSE IF fault = "state" THEN "not_found"
    ELSE IF fault = "cache" THEN "not_found"
    ELSE IF table_rejection # "none" THEN table_rejection
    ELSE IF fault = "eligible" /\ Len(eligible_validator_indices) > 0 THEN "server_error"
    ELSE "none"

compute_attestation_rewards ==
    /\ att_pc = "start"
    /\ att_pc' = "done"
    /\ IF att_rejection # "none"
       THEN /\ att_outcome' = att_rejection
            /\ ideal_rewards_hashmap' = EmptyMap
            /\ ideal_rewards' = EmptyMap
            /\ total_rewards' = <<>>
       ELSE LET map == [key \in Flags \X Buckets |-> ideal_entry(key[1], key[2])]
            IN  /\ att_outcome' = "ok"
                /\ ideal_rewards_hashmap' = map
                /\ ideal_rewards' = [key \in DOMAIN map |-> IdealAttestationRewards(map, key)]
                /\ total_rewards' = [i \in 1..Len(eligible_validator_indices) |->
                        TotalAttestationRewards(map, eligible_validator_indices[i])]
    /\ UNCHANGED <<fault, fault_flag, in_inactivity_leak, total_active_balance,
                   unslashed_balance, per_increment, is_eligible, participated,
                   effective_balance>>
    /\ UNCHANGED sync_vars


\* =================================================== sync committee rewards
\* the public keys known to the model; key k is validator k - 1 of the registry
PubKeys == {1, 2}

\* bounds of the snapshot
MaxCommitteeSize == 2
MaxParticipantReward == 2

\* the index Ok(Some(index)) carries for a key of the registry
registry_index(pubkey) == pubkey - 1

\* the ValidatorId values a request may hold
ValidatorIds ==
    [kind : {"Index"}, v : {registry_index(k) : k \in PubKeys} \cup {Cardinality(PubKeys)}]
    \cup [kind : {"PublicKey"}, v : PubKeys]

\* the closure of the first map (70-76), for the lookups that do not panic:
\* Ok(validator_index) => validator_index, _ => Some(0), then unwrap
sync_committee_validator_index(pubkey) ==
    IF validator_lookup[pubkey] = "ok_some" THEN registry_index(pubkey) ELSE 0

\* iter().zip(..): as many pairs as the shorter of the two
zip_len ==
    IF Len(current_sync_committee) <= Len(sync_committee_bits)
    THEN Len(current_sync_committee) ELSE Len(sync_committee_bits)

\* the triples the first map yields
triples ==
    [i \in 1..zip_len |->
        [pubkey |-> current_sync_committee[i],
         index |-> sync_committee_validator_index(current_sync_committee[i]),
         bit |-> sync_committee_bits[i]]]

\* Ok(None) is unwrapped: the closure panics at such a member
unwrap_panics ==
    \E i \in 1..zip_len : validator_lookup[current_sync_committee[i]] = "ok_none"

\* filter_keeps with ValidatorId::Index compared to the public key
filter_keeps_by_pubkey(filter, t) ==
    \/ filter = {}
    \/ \E validator \in filter : t.pubkey = validator.v

\* the closure of filter (77-90)
filter_keeps(filter, t) ==
    \/ filter = {}
    \/ \E validator \in filter :
          IF validator.kind = "PublicKey"
          THEN t.pubkey = validator.v
          ELSE as_u64(t.index) = validator.v

\* the closure of the second map (91-97)
SyncCommitteeAttestationReward(t) ==
    [validator_index |-> as_u64(t.index),
     reward |-> IF t.bit THEN as_i64(participant_reward_value)
                ELSE as_i64(participant_reward_value) * (-1)]

\* the vector collected at 98 for a request with the given filter
collected(filter) ==
    LET keep(t) == filter_keeps(filter, t)
        kept == SelectSeq(triples, keep)
    IN  [i \in 1..Len(kept) |-> SyncCommitteeAttestationReward(kept[i])]

\* the rejection of the request, or "none" (19-54)
sync_rejection ==
    IF sync_fault = "block" THEN "not_found"
    ELSE IF sync_fault = "sync_aggregate" THEN "bad_request"
    ELSE IF sync_fault = "state" THEN "bad_request"
    ELSE IF sync_fault = "rewards" THEN "bad_request"
    ELSE IF sync_fault = "committee" THEN "bad_request"
    ELSE "none"

compute_sync_committee_rewards ==
    /\ sync_pc = "start"
    /\ sync_pc' = "done"
    /\ IF sync_rejection # "none"
       THEN /\ sync_outcome' = sync_rejection
            /\ data_is_some' = FALSE
            /\ data' = <<>>
       ELSE IF current_sync_committee = <<>>
       THEN /\ sync_outcome' = "ok"
            /\ data_is_some' = FALSE
            /\ data' = <<>>
       ELSE IF unwrap_panics
       THEN /\ sync_outcome' = "panic"
            /\ data_is_some' = FALSE
            /\ data' = <<>>
       ELSE /\ sync_outcome' = "ok"
            /\ data_is_some' = TRUE
            /\ data' = collected(validators)
    /\ UNCHANGED <<sync_fault, current_sync_committee, sync_committee_bits,
                   validator_lookup, participant_reward_value, validators>>
    /\ UNCHANGED att_vars

\* ------------------------------------------------------------------- Init
AttFaults == {"none", "state_root", "state", "cache", "indices", "brpi", "eligible"}

\* there is no snapshot when the state could not be loaded
NoSnapshot == fault \in {"state_root", "state", "cache"}

AttStart ==
    /\ att_pc = "start"
    /\ att_outcome = "none"
    /\ ideal_rewards_hashmap = EmptyMap
    /\ ideal_rewards = EmptyMap
    /\ total_rewards = <<>>

\* no attestation request
AttIdle ==
    /\ fault = "state_root"
    /\ fault_flag = TIMELY_SOURCE_FLAG_INDEX
    /\ in_inactivity_leak = FALSE
    /\ total_active_balance = 0
    /\ unslashed_balance = [f \in Flags |-> 0]
    /\ per_increment = 1
    /\ is_eligible = [v \in ValidatorIndices |-> FALSE]
    /\ participated = [v \in ValidatorIndices |-> {}]
    /\ effective_balance = [v \in ValidatorIndices |-> 1]
    /\ att_pc = "done"
    /\ att_outcome = "none"
    /\ ideal_rewards_hashmap = EmptyMap
    /\ ideal_rewards = EmptyMap
    /\ total_rewards = <<>>

SyncStart ==
    /\ sync_pc = "start"
    /\ sync_outcome = "none"
    /\ data_is_some = FALSE
    /\ data = <<>>

\* no sync committee request
SyncIdle ==
    /\ sync_fault = "block"
    /\ current_sync_committee = <<>>
    /\ sync_committee_bits = <<>>
    /\ validator_lookup = [k \in PubKeys |-> "ok_some"]
    /\ participant_reward_value = 1
    /\ validators = {}
    /\ sync_pc = "done"
    /\ sync_outcome = "none"
    /\ data_is_some = FALSE
    /\ data = <<>>

\* snapshots that vary the balances the table is built from; validator 0 is
\* the large validator, validator 1 the small one
AttInit ==
    /\ fault \in AttFaults
    /\ fault_flag \in (IF fault = "indices" THEN Flags ELSE {TIMELY_SOURCE_FLAG_INDEX})
    /\ in_inactivity_leak \in (IF NoSnapshot THEN {FALSE} ELSE BOOLEAN)
    /\ total_active_balance \in (IF NoSnapshot THEN {0} ELSE 0..MaxBalance)
    /\ unslashed_balance \in [Flags -> 0..total_active_balance]
    /\ per_increment \in (IF NoSnapshot THEN {1} ELSE 1..MaxBaseRewardPerIncrement)
    /\ is_eligible = [v \in ValidatorIndices |-> ~NoSnapshot /\ v = 0]
    /\ participated = [v \in ValidatorIndices |-> IF NoSnapshot THEN {} ELSE Flags]
    /\ effective_balance = [v \in ValidatorIndices |->
                               IF v = 0 THEN MaxEffectiveBalanceEth ELSE 1]
    /\ AttStart
    /\ SyncIdle

\* snapshots that vary the validators; every flag's participating balance is
\* either nothing or the whole active balance
AttValidatorInit ==
    /\ fault \in {"none", "eligible"}
    /\ fault_flag = TIMELY_SOURCE_FLAG_INDEX
    /\ in_inactivity_leak \in BOOLEAN
    /\ total_active_balance = MaxBalance
    /\ unslashed_balance \in {[f \in Flags |-> u] : u \in {0, total_active_balance}}
    /\ per_increment \in 1..MaxBaseRewardPerIncrement
    /\ is_eligible \in [ValidatorIndices -> BOOLEAN]
    /\ participated \in [ValidatorIndices -> SUBSET Flags]
    /\ effective_balance \in [ValidatorIndices -> ValidatorBuckets]
    /\ AttStart
    /\ SyncIdle

SyncFaults == {"none", "block", "sync_aggregate", "state", "rewards", "committee"}

SeqsUpTo(S, n) == UNION {[1..k -> S] : k \in 0..n}

SyncInit ==
    /\ sync_fault \in SyncFaults
    /\ current_sync_committee \in
          (IF sync_fault = "none" THEN SeqsUpTo(PubKeys, MaxCommitteeSize) ELSE {<<>>})
    /\ sync_committee_bits \in
          (IF sync_fault = "none" THEN SeqsUpTo(BOOLEAN, MaxCommitteeSize) ELSE {<<>>})
    /\ validator_lookup \in
          (IF sync_fault = "none" THEN [PubKeys -> {"ok_some", "ok_none", "err"}]
           ELSE {[k \in PubKeys |-> "ok_some"]})
    /\ participant_reward_value \in
          (IF sync_fault = "none" THEN 1..MaxParticipantReward ELSE {1})
    /\ validators \in {F \in SUBSET ValidatorIds : Cardinality(F) <= 2}
    /\ SyncStart
    /\ AttIdle

AttNext == compute_attestation_rewards

SyncNext == compute_sync_committee_rewards

AttSpec == AttInit /\ [][AttNext]_vars

AttValidatorSpec == AttValidatorInit /\ [][AttNext]_vars

SyncSpec == SyncInit /\ [][SyncNext]_vars

\* ================================================================ properties
AttDone == att_pc = "done"
AttOk == AttDone /\ att_outcome = "ok"
SyncDone == sync_pc = "done"
SyncOk == SyncDone /\ sync_outcome = "ok"

\* the total a TotalAttestationRewards entry reports
reported_total(r) == r.head + r.target + r.source + r.inclusion_delay

\* the reward an entry reports for flag f
reported_flag(r, f) ==
    CASE f = TIMELY_SOURCE_FLAG_INDEX -> r.source
      [] f = TIMELY_TARGET_FLAG_INDEX -> r.target
      [] f = TIMELY_HEAD_FLAG_INDEX -> r.head

\* the sum of the three table values at bucket b
ideal_sum(b) ==
    ideal_rewards_hashmap[<<TIMELY_SOURCE_FLAG_INDEX, b>>]
    + ideal_rewards_hashmap[<<TIMELY_TARGET_FLAG_INDEX, b>>]
    + ideal_rewards_hashmap[<<TIMELY_HEAD_FLAG_INDEX, b>>]

\* C1: an eligible validator in the unslashed participating set of all three
\* flags is reported a total equal to the sum of the three ideal rewards at
\* its own effective-balance bucket.
C1_TotalIsSumOfIdealRewards ==
    AttOk =>
        \A i \in DOMAIN total_rewards :
            LET r == total_rewards[i]
                v == r.validator_index
            IN  (is_eligible[v] /\ participated[v] = Flags)
                    => reported_total(r) = ideal_sum(effective_balance[v])

\* C2: a validator that is not eligible for the previous epoch is reported 0
\* for every flag, whatever its flags, its balance and the table.
C2_IneligibleRewardIsZero ==
    AttOk =>
        \A i \in DOMAIN total_rewards :
            LET r == total_rewards[i]
            IN  ~is_eligible[r.validator_index]
                    => /\ r.head = 0 /\ r.target = 0 /\ r.source = 0
                       /\ reported_total(r) = 0

\* an ineligible validator with every flag set was processed while the table
\* holds a non-zero reward at its bucket
C2_Witness ==
    /\ AttOk
    /\ \E i \in DOMAIN total_rewards :
          LET v == total_rewards[i].validator_index
          IN  /\ ~is_eligible[v]
              /\ participated[v] = Flags
              /\ ideal_rewards_hashmap[<<TIMELY_SOURCE_FLAG_INDEX, effective_balance[v]>>] > 0

\* C3: after a successful request in an inactivity leak every ideal-reward
\* entry (three flags, buckets 0..=32) is 0; outside a leak the entry is the
\* computed reward.
C3_LeakZeroesIdealRewards ==
    AttOk =>
        /\ DOMAIN ideal_rewards_hashmap = Flags \X Buckets
        /\ DOMAIN ideal_rewards = Flags \X Buckets
        /\ \A key \in Flags \X Buckets :
              IF in_inactivity_leak
              THEN /\ ideal_rewards_hashmap[key] = 0
                   /\ ideal_rewards[key].head = 0
                   /\ ideal_rewards[key].target = 0
                   /\ ideal_rewards[key].source = 0
              ELSE ideal_rewards_hashmap[key] = reward(key[1], key[2])

\* a successful request in a leak whose computed reward is not 0 somewhere
C3_Witness ==
    /\ AttOk
    /\ in_inactivity_leak
    /\ \E key \in Flags \X Buckets : reward(key[1], key[2]) > 0

\* C6: with total_active_balance = 0 the request fails; no table, no table of
\* zeros and no partial result is returned.
C6_ZeroActiveBalanceFails ==
    (AttDone /\ ~NoSnapshot /\ total_active_balance = 0) =>
        /\ att_outcome \in {"server_error", "not_found"}
        /\ ideal_rewards_hashmap = EmptyMap
        /\ ideal_rewards = EmptyMap
        /\ total_rewards = <<>>

\* the division by zero active increments is what ended the request
C6_Witness ==
    /\ AttDone
    /\ fault = "none"
    /\ total_active_balance = 0
    /\ att_outcome = "server_error"

\* the products of the reward formula, as mathematical integers
exact_base_reward(b) == b * per_increment
exact_unslashed_increments(f) == unslashed_balance[f] \div EFFECTIVE_BALANCE_INCREMENT
exact_active_increments == total_active_balance \div EFFECTIVE_BALANCE_INCREMENT
exact_numerator(f, b) ==
    exact_base_reward(b) * get_flag_weight(f) * exact_unslashed_increments(f)

\* some multiplication of the formula does not fit the word
overflows(f, b) ==
    \/ exact_base_reward(b) > MaxWord
    \/ exact_base_reward(b) * get_flag_weight(f) > MaxWord
    \/ exact_numerator(f, b) > MaxWord

\* C10: outside a leak every stored entry is
\* floor(base_reward * weight * unslashed_increments / (active_increments * WEIGHT_DENOMINATOR));
\* an overflowing multiplication or a zero divisor fails the request.
C10_IdealRewardFormula ==
    /\ (AttOk /\ ~in_inactivity_leak) =>
          \A key \in Flags \X Buckets :
              ideal_rewards_hashmap[key] =
                  exact_numerator(key[1], key[2])
                      \div (exact_active_increments * WEIGHT_DENOMINATOR)
    /\ (AttDone /\ ~NoSnapshot
          /\ (\/ exact_active_increments = 0
              \/ \E key \in Flags \X Buckets : overflows(key[1], key[2])))
          => att_outcome \in {"server_error", "not_found"}

\* a stored entry for which dividing twice truncates twice: the numerator is
\* no multiple of active_increments, and the entry is not 0
C10_Witness ==
    /\ AttOk
    /\ ~in_inactivity_leak
    /\ exact_active_increments > 1
    /\ \E key \in Flags \X Buckets :
          /\ exact_numerator(key[1], key[2]) % exact_active_increments # 0
          /\ ideal_rewards_hashmap[key] > 0

\* the base reward of validator v itself
own_base_reward(v) == effective_balance[v] * per_increment

\* C9: for every eligible validator and every flag, the reward is the table
\* value at (flag, own bucket) if the validator is in the flag's set, else the
\* penalty -(own base reward * weight) / WEIGHT_DENOMINATOR.
C9_PerFlagRewardOrPenalty ==
    AttOk =>
        \A i \in DOMAIN total_rewards : \A f \in Flags :
            LET r == total_rewards[i]
                v == r.validator_index
            IN  is_eligible[v] =>
                    reported_flag(r, f) =
                        IF f \in participated[v]
                        THEN ideal_rewards_hashmap[<<f, effective_balance[v]>>]
                        ELSE -((own_base_reward(v) * get_flag_weight(f)) \div WEIGHT_DENOMINATOR)

RECURSIVE SumAbs(_)
SumAbs(s) ==
    IF s = <<>> THEN 0
    ELSE (IF Head(s).reward < 0 THEN -Head(s).reward ELSE Head(s).reward) + SumAbs(Tail(s))

\* C4: with an empty filter and a non-empty committee there is one entry per
\* member, in committee order, of +value if the member's bit is set and
\* -value otherwise; the absolute values sum to value * committee size.
C4_OneSignedEntryPerMember ==
    (SyncOk /\ validators = {} /\ current_sync_committee # <<>>) =>
        /\ data_is_some
        /\ Len(data) = Len(current_sync_committee)
        /\ \A i \in 1..Len(current_sync_committee) :
              /\ i \in DOMAIN sync_committee_bits
              /\ i \in DOMAIN data
              /\ data[i].reward = IF sync_committee_bits[i]
                                  THEN participant_reward_value
                                  ELSE -participant_reward_value
        /\ SumAbs(data) = participant_reward_value * Len(current_sync_committee)

\* the indices a filter names
filter_indices(filter) == {id.v : id \in {x \in filter : x.kind = "Index"}}

\* C5: a non-empty filter of validator indices yields exactly the entries of
\* the unfiltered sequence whose index is in the filter, in the same order.
C5_IndexFilterIsSubsequence ==
    (SyncOk /\ validators # {} /\ \A id \in validators : id.kind = "Index") =>
        LET unfiltered == collected({})
            wanted(e) == e.validator_index \in filter_indices(validators)
        IN  data = IF data_is_some THEN SelectSeq(unfiltered, wanted) ELSE <<>>

\* an index filter that keeps some entries and drops others
C5_Witness ==
    /\ SyncOk
    /\ data_is_some
    /\ validators # {}
    /\ \A id \in validators : id.kind = "Index"
    /\ Len(data) > 0
    /\ Len(data) < Len(collected({}))

\* C7: if the index lookup of a committee member fails, the request fails.
C7_FailedLookupFailsRequest ==
    (SyncDone /\ sync_fault = "none"
        /\ \E i \in 1..Len(current_sync_committee) :
              validator_lookup[current_sync_committee[i]] # "ok_some")
        => sync_outcome \notin {"ok", "none"}

\* C8: if the committee and the sync aggregate differ in length, the request
\* fails.
C8_LengthMismatchFailsRequest ==
    (SyncDone /\ sync_fault = "none"
        /\ Len(current_sync_committee) # Len(sync_committee_bits))
        => sync_outcome \notin {"ok", "none"}

====
